---- MODULE Spec2Model ----
(***************************************************************************)
(* Model of ssb_mcp/main.py: the read_table tool and the recursive query   *)
(* partitioner (_count_combinations, _recursive_split) it relies on.       *)
(*                                                                         *)
(* Strings that the code only compares (category keys, column names) are   *)
(* modelled by small integers carrying the same order; a value list is a   *)
(* sequence of them and is compared as Python compares lists.              *)
(***************************************************************************)
EXTENDS Integers, Sequences, FiniteSets, TLC

\* ---- bounds -------------------------------------------------------------
Cap == 2             \* the cell cap (300000 at main.py:193), scaled down
MaxVal == 3          \* category keys of a dimension are drawn from 1..MaxVal
MaxDims == 2         \* a table has 1..MaxDims variables
RecursionLimit == 6  \* depth at which the interpreter raises RecursionError

\* ---- values the code only passes around ---------------------------------
NoCode == 0          \* a descriptor without a "code" key
NaN == 0 - 1         \* the filler pandas puts into a missing column
ValueCol == 100      \* the "value" column pyjstat always writes

VARIABLES
    pc,             \* position of the read_table call
    exc,            \* the exception the call ended with, "None" if none
    metadata,       \* the document the metadata endpoint serves
    variables,      \* main.py:110
    stack,          \* pending _recursive_split calls, innermost-first
    sub_variables,  \* main.py:115, filled leaf by leaf
    queries,        \* main.py:117
    posted,         \* request bodies sent to the data endpoint, in order
    responses,      \* what each of those requests came back with
    df,             \* main.py:131
    returned        \* <<df>> once read_table has returned, <<>> before

vars == <<pc, exc, metadata, variables, stack, sub_variables, queries,
          posted, responses, df, returned>>

\* ---- helpers ------------------------------------------------------------
Min(a, b) == IF a <= b THEN a ELSE b

Range(s) == {s[k] : k \in 1..Len(s)}

\* Python's list slices values[:k] and values[k:]
Take(s, k) == SubSeq(s, 1, k)
Drop(s, k) == SubSeq(s, k + 1, Len(s))

\* Python's ordering of two lists: the first differing element decides, and
\* a proper prefix is smaller.
ListLT(a, b) ==
    \/ /\ Len(a) < Len(b)
       /\ \A j \in 1..Len(a) : a[j] = b[j]
    \/ \E k \in 1..Min(Len(a), Len(b)) :
          /\ a[k] < b[k]
          /\ \A j \in 1..(k - 1) : a[j] = b[j]

\* ---- the partitioner ----------------------------------------------------
RECURSIVE CountFrom(_, _)
CountFrom(vs, k) ==
    IF k > Len(vs) THEN 1 ELSE Len(vs[k].values) * CountFrom(vs, k + 1)

\* _count_combinations: product of the lengths of the value lists
_count_combinations(vs) == CountFrom(vs, 1)

\* the key max() ranks the variables by: lambda x: x["values"]
MaxKeyLT(x, y) == ListLT(x.values, y.values)

\* max(variables, key=...): the first variable no other variable outranks
largest_variable(vs) ==
    LET best == CHOOSE i \in 1..Len(vs) :
                    /\ \A j \in 1..Len(vs) : ~MaxKeyLT(vs[i], vs[j])
                    /\ \A j \in 1..(i - 1) :
                          \E m \in 1..Len(vs) : MaxKeyLT(vs[j], vs[m])
    IN  vs[best]

split_index(vs) == Len(largest_variable(vs).values) \div 2

\* a first half that runs one key past the midpoint
p1_overlapping(vs) == Take(largest_variable(vs).values, split_index(vs) + 1)

p1(vs) == Take(largest_variable(vs).values, split_index(vs))

\* a second half that starts one key past the midpoint
p2_skipping(vs) == Drop(largest_variable(vs).values, split_index(vs) + 1)

p2(vs) == Drop(largest_variable(vs).values, split_index(vs))

\* a comprehension that writes the split variable's code into every entry
Replace_renaming(vs, part) ==
    [k \in 1..Len(vs) |->
        [code   |-> largest_variable(vs).code,
         values |-> IF vs[k] = largest_variable(vs) THEN part
                    ELSE vs[k].values]]

\* the comprehension shared by sub_query1 and sub_query2
Replace(vs, part) ==
    [k \in 1..Len(vs) |->
        [code   |-> vs[k].code,
         values |-> IF vs[k] = largest_variable(vs) THEN part
                    ELSE vs[k].values]]

sub_query1(vs) == Replace(vs, p1(vs))
sub_query2(vs) == Replace(vs, p2(vs))

\* ---- inputs -------------------------------------------------------------
\* value lists: distinct category keys, possibly none; the model draws them
\* in ascending order
ValueLists ==
    {s \in UNION {[1..n -> 1..MaxVal] : n \in 0..MaxVal} :
        \A k \in 1..(Len(s) - 1) : s[k] < s[k + 1]}

\* a metadata document: descriptor k carries code k, or no code at all
Metadatas ==
    UNION {{m \in [1..n -> [code : {NoCode} \cup (1..MaxDims),
                            values : ValueLists]] :
               \A k \in 1..n : m[k].code \in {NoCode, k}}
           : n \in 1..MaxDims}

EmptyFrame == [columns |-> {}, rows |-> <<>>]

Init ==
    /\ pc = "table_metadata"
    /\ exc = "None"
    /\ metadata \in Metadatas
    /\ variables = <<>>
    /\ stack = <<>>
    /\ sub_variables = <<>>
    /\ queries = <<>>
    /\ posted = <<>>
    /\ responses = <<>>
    /\ df = EmptyFrame
    /\ returned = <<>>

Raise(e) ==
    /\ pc' = "raised"
    /\ exc' = e

\* main.py:108  metadata = table_metadata(table_id)
TableMetadata ==
    /\ pc = "table_metadata"
    /\ \E ok \in BOOLEAN :
          IF ok THEN pc' = "variables" /\ exc' = exc
          ELSE Raise("HTTPStatusError")
    /\ UNCHANGED <<metadata, variables, stack, sub_variables, queries,
                   posted, responses, df, returned>>

\* main.py:109-113  the list of {"code", "values"} dicts
BuildVariables ==
    /\ pc = "variables"
    /\ IF \E k \in 1..Len(metadata) : metadata[k].code = NoCode
       THEN /\ Raise("KeyError")
            /\ UNCHANGED <<variables, stack>>
       ELSE /\ variables' = [k \in 1..Len(metadata) |->
                                [code |-> metadata[k].code,
                                 values |-> metadata[k].values]]
            /\ stack' = <<[variables |-> variables', depth |-> 1]>>
            /\ pc' = "split"
            /\ exc' = exc
    /\ UNCHANGED <<metadata, sub_variables, queries, posted, responses,
                   df, returned>>

\* main.py:192-194  a call whose query is within the cap returns [variables]
SplitReturn ==
    /\ pc = "split"
    /\ stack # <<>>
    /\ _count_combinations(Head(stack).variables) <= Cap
    /\ sub_variables' = Append(sub_variables, Head(stack).variables)
    /\ stack' = Tail(stack)
    /\ UNCHANGED <<pc, exc, metadata, variables, queries, posted, responses,
                   df, returned>>

\* main.py:196-218  a call over the cap halves one variable and calls itself
\* on the first half, then on the second
SplitRecurse ==
    /\ pc = "split"
    /\ stack # <<>>
    /\ _count_combinations(Head(stack).variables) > Cap
    /\ Head(stack).depth < RecursionLimit
    /\ LET vs == Head(stack).variables
           d  == Head(stack).depth + 1
       IN  stack' = <<[variables |-> sub_query1(vs), depth |-> d],
                      [variables |-> sub_query2(vs), depth |-> d]>>
                    \o Tail(stack)
    /\ UNCHANGED <<pc, exc, metadata, variables, sub_variables, queries,
                   posted, responses, df, returned>>

\* the call stack is exhausted: the interpreter raises RecursionError
SplitOverflow ==
    /\ pc = "split"
    /\ stack # <<>>
    /\ _count_combinations(Head(stack).variables) > Cap
    /\ Head(stack).depth >= RecursionLimit
    /\ Raise("RecursionError")
    /\ UNCHANGED <<metadata, variables, stack, sub_variables, queries,
                   posted, responses, df, returned>>

\* ---- the request bodies --------------------------------------------------
\* main.py:120-126
query_body(sub_query) ==
    [k \in 1..Len(sub_query) |->
        [code      |-> sub_query[k].code,
         selection |-> [filter |-> "item", values |-> sub_query[k].values]]]

\* main.py:117-127, once the outermost _recursive_split call has returned
BuildQueries ==
    /\ pc = "split"
    /\ stack = <<>>
    /\ queries' = [i \in 1..Len(sub_variables) |-> query_body(sub_variables[i])]
    /\ pc' = "post"
    /\ UNCHANGED <<exc, metadata, variables, stack, sub_variables, posted,
                   responses, df, returned>>

\* ---- the data frames ----------------------------------------------------
\* DataFrame.empty: some axis has length 0
empty(frame) == frame.rows = <<>> \/ frame.columns = {}

\* pd.concat([a, b], ignore_index=True): the columns of both, the rows of a
\* followed by the rows of b, a column a row lacks filled with NaN
concat(a, b) ==
    LET cols == a.columns \cup b.columns
        reindex(r) == [c \in cols |-> IF c \in DOMAIN r THEN r[c] ELSE NaN]
    IN  [columns |-> cols,
         rows    |-> [k \in 1..Len(a.rows) |-> reindex(a.rows[k])]
                     \o [k \in 1..Len(b.rows) |-> reindex(b.rows[k])]]

\* an accumulation that puts the new rows in front of the old ones
accumulate_prepending(frame, sub_df) ==
    IF empty(frame) THEN sub_df ELSE concat(sub_df, frame)

\* main.py:140
accumulate(frame, sub_df) ==
    IF empty(frame) THEN sub_df ELSE concat(frame, sub_df)

\* a status check that never raises
raise_for_status_ignored(ok) == FALSE

\* response.raise_for_status(): TRUE when it raises
raise_for_status(ok) == ~ok

\* The table the data endpoint serves is dense: a request selects the cells
\* of the cross-product of its value lists, listed with the last dimension
\* varying fastest.
RECURSIVE CellsFrom(_, _)
CellsFrom(body, k) ==
    IF k > Len(body) THEN << <<>> >>
    ELSE LET rest == CellsFrom(body, k + 1)
             vals == body[k].selection.values
             n    == Len(rest)
         IN  [i \in 1..(Len(vals) * n) |->
                 <<vals[((i - 1) \div n) + 1]>> \o rest[((i - 1) % n) + 1]]

\* the measurement stored in a cell
Measure(cell) == cell[1] % 2

\* What pyjstat decodes the answer to a request into: a row per selected cell
\* with a column per dimension and the value column.  The endpoint may also
\* answer with no rows at all, or with an anomalous document that decodes to
\* the value column alone.
SubFrames(body) ==
    LET dims  == {body[k].code : k \in 1..Len(body)}
        pos(c) == CHOOSE k \in 1..Len(body) : body[k].code = c
        cells == CellsFrom(body, 1)
        frame(cols, n) ==
            [columns |-> cols,
             rows |-> [i \in 1..n |->
                         [c \in cols |-> IF c = ValueCol THEN Measure(cells[i])
                                         ELSE cells[i][pos(c)]]]]
    IN  {frame(dims \cup {ValueCol}, Len(cells)),
         frame(dims \cup {ValueCol}, 0),
         frame({ValueCol}, Len(cells))}

\* main.py:133-140  one turn of the loop over queries
Post ==
    /\ pc = "post"
    /\ Len(posted) < Len(queries)
    /\ posted' = Append(posted, queries[Len(posted) + 1])
    /\ \E ok \in BOOLEAN :
          IF raise_for_status(ok)
          THEN /\ Raise("HTTPStatusError")
               /\ responses' = Append(responses, [ok |-> ok, frame |-> EmptyFrame])
               /\ df' = df
          ELSE \E sub_df \in SubFrames(queries[Len(posted) + 1]) :
               /\ responses' = Append(responses, [ok |-> ok, frame |-> sub_df])
               /\ df' = accumulate(df, sub_df)
               /\ UNCHANGED <<pc, exc>>
    /\ UNCHANGED <<metadata, variables, stack, sub_variables, queries,
                   returned>>

\* main.py:142
Return ==
    /\ pc = "post"
    /\ Len(posted) = Len(queries)
    /\ returned' = <<df>>
    /\ pc' = "returned"
    /\ UNCHANGED <<exc, metadata, variables, stack, sub_variables, queries,
                   posted, responses, df>>

Next ==
    \/ TableMetadata
    \/ BuildVariables
    \/ SplitReturn
    \/ SplitRecurse
    \/ SplitOverflow
    \/ BuildQueries
    \/ Post
    \/ Return

Spec == Init /\ [][Next]_vars

\* ---- vocabulary of the properties ----------------------------------------
\* the queries the recursion has produced or still has to work on, in order
Pending == [k \in 1..Len(stack) |-> stack[k].variables]
Parts == sub_variables \o Pending

Started == stack # <<>> \/ sub_variables # <<>>
PartitionerReturned == stack = <<>> /\ sub_variables # <<>>
PartitionerRaised == pc = "raised" /\ stack # <<>>

NonEmptyInput == \A k \in 1..Len(metadata) : metadata[k].values # <<>>

Codes(q) == [k \in 1..Len(q) |-> q[k].code]

\* the cells of a query: one key per dimension
CellSet(q) ==
    {c \in [1..Len(q) -> 1..MaxVal] : \A k \in 1..Len(q) : c[k] \in Range(q[k].values)}

NoRepeats(s) == Cardinality(Range(s)) = Len(s)

RECURSIVE SumCounts(_, _)
SumCounts(qs, k) ==
    IF k > Len(qs) THEN 0 ELSE _count_combinations(qs[k]) + SumCounts(qs, k + 1)

\* the first dimension among those with the most values
FirstLongest(vs) ==
    CHOOSE i \in 1..Len(vs) :
        /\ \A j \in 1..Len(vs) : Len(vs[j].values) <= Len(vs[i].values)
        /\ \A j \in 1..(i - 1) : Len(vs[j].values) < Len(vs[i].values)

\* a step in which a call has split its query
SplitStep == pc = "split" /\ Len(stack') = Len(stack) + 1

RECURSIVE RowsFrom(_, _)
RowsFrom(rs, k) ==
    IF k > Len(rs) THEN <<>> ELSE rs[k].frame.rows \o RowsFrom(rs, k + 1)

\* S1.rows ++ S2.rows ++ ... ++ Sn.rows
AllRows == RowsFrom(responses, 1)

AllOk == \A i \in 1..Len(responses) : responses[i].ok

\* a sub-dataset whose columns differ from those of the first non-empty one
SchemaMismatch ==
    \E i \in 1..Len(responses) : \E j \in (i + 1)..Len(responses) :
        /\ responses[i].frame.rows # <<>>
        /\ \A h \in 1..(i - 1) : responses[h].frame.rows = <<>>
        /\ responses[j].frame.columns # responses[i].frame.columns

BadMetadata ==
    \E k \in 1..Len(metadata) :
        metadata[k].code = NoCode \/ metadata[k].values = <<>>

\* ---- properties ------------------------------------------------------------

\* C1: for dimensions with non-empty value lists, every query the partitioner
\* returns has at most Cap cells, and a partitioner call that cannot get
\* under the cap ends with PartitionError.
C1_CapOrPartitionError ==
    NonEmptyInput =>
        /\ PartitionerReturned =>
               \A i \in 1..Len(sub_variables) :
                   _count_combinations(sub_variables[i]) <= Cap
        /\ PartitionerRaised => exc = "PartitionError"

\* what the code does guarantee: no query it returns exceeds the cap
CapRespectedOnReturn ==
    PartitionerReturned =>
        \A i \in 1..Len(sub_variables) :
            _count_combinations(sub_variables[i]) <= Cap

\* C2: the queries produced so far and the calls still pending always hold
\* every cell of the table exactly once, so the returned list covers the
\* cross-product with no cell omitted or duplicated; and each split cuts one
\* dimension into two disjoint halves whose concatenation is the parent's
\* value list, leaving every other dimension as it was in both halves.
C2_CoverInv ==
    Started =>
        /\ \A i \in 1..Len(Parts) :
               /\ CellSet(Parts[i]) \subseteq CellSet(variables)
               /\ \A k \in 1..Len(Parts[i]) : NoRepeats(Parts[i][k].values)
        /\ \A c \in CellSet(variables) :
               Cardinality({i \in 1..Len(Parts) : c \in CellSet(Parts[i])}) = 1

C2_SplitOK ==
    SplitStep =>
        LET vs == Head(stack).variables
            a  == stack'[1].variables
            b  == stack'[2].variables
        IN  /\ Len(a) = Len(vs) /\ Len(b) = Len(vs)
            /\ \E k \in 1..Len(vs) :
                  /\ a[k].values \o b[k].values = vs[k].values
                  /\ Range(a[k].values) \cap Range(b[k].values) = {}
                  /\ \A j \in (1..Len(vs)) \ {k} : a[j] = vs[j] /\ b[j] = vs[j]

C2_ExactCover == [](C2_CoverInv) /\ [][C2_SplitOK]_vars

C2_Witness ==
    /\ PartitionerReturned
    /\ Len(sub_variables) >= 3
    /\ Len(variables) = 2
    /\ NonEmptyInput

\* C3: on dimensions with non-empty value lists the partitioner never
\* exhausts the call stack, and never calls itself on a query holding a
\* zero-length half.
C3_Terminates ==
    NonEmptyInput =>
        /\ exc # "RecursionError"
        /\ \A i \in 1..Len(stack) : \A k \in 1..Len(stack[i].variables) :
               stack[i].variables[k].values # <<>>

\* C4: a call that splits cuts the first of the dimensions with the most
\* values, at index floor(n/2).
C4_Split ==
    SplitStep =>
        LET vs == Head(stack).variables
            k  == FirstLongest(vs)
            n  == Len(vs[k].values)
        IN  /\ stack'[1].variables[k].values = Take(vs[k].values, n \div 2)
            /\ stack'[2].variables[k].values = Drop(vs[k].values, n \div 2)

C4_SplitsLargestCount == [][C4_Split]_vars

C6_FailureAborts ==
    \A i \in 1..Len(responses) :
        ~responses[i].ok =>
            /\ pc = "raised"
            /\ exc = "HTTPStatusError"
            /\ returned = <<>>
            /\ Len(responses) = i
            /\ Len(posted) = i
            /\ \A j \in 1..i : posted[j] = queries[j]

C6_Witness ==
    /\ Len(responses) = 2
    /\ ~responses[2].ok
    /\ df.rows # <<>>
    /\ Len(queries) >= 3

\* C7: no dataset is returned when a sub-dataset's columns differ from those
\* of the first non-empty sub-dataset.
C7_SchemaMismatchRaises ==
    pc = "returned" => ~SchemaMismatch

\* C8: metadata with a descriptor that lacks a code or has no values makes
\* the call fail with MetadataError before any data request is sent.
C8_MetadataErrorBeforePost ==
    BadMetadata =>
        /\ posted = <<>>
        /\ pc \in {"table_metadata", "variables", "raised"}
        /\ pc = "raised" => exc \in {"MetadataError", "HTTPStatusError"}

\* C9: the cell counts of the queries produced so far and of the calls still
\* pending always add up to the cell count of the table, so the counts of
\* the returned queries sum to the product of the original value counts.
C9_CardinalityConserved ==
    Started => SumCounts(Parts, 1) = _count_combinations(variables)

C9_Witness ==
    /\ PartitionerReturned
    /\ Len(sub_variables) >= 2
    /\ _count_combinations(variables) > Cap

\* C10: every query at every recursion depth and every request body lists
\* the codes of the metadata document, in its order, and holds per dimension
\* only keys of that dimension.
C10_DimensionCodesPreserved ==
    /\ \A i \in 1..Len(Parts) :
          /\ Codes(Parts[i]) = Codes(metadata)
          /\ \A k \in 1..Len(Parts[i]) :
                Range(Parts[i][k].values) \subseteq Range(metadata[k].values)
    /\ \A i \in 1..Len(queries) :
          /\ Codes(queries[i]) = Codes(metadata)
          /\ \A k \in 1..Len(queries[i]) :
                queries[i][k].selection.values = sub_variables[i][k].values
    /\ \A i \in 1..Len(posted) : posted[i] = queries[i]

C10_Witness ==
    /\ Len(posted) >= 2
    /\ Len(metadata) = 2
    /\ \E i \in 1..Len(posted) : \E k \in 1..Len(metadata) :
          Len(posted[i][k].selection.values) < Len(metadata[k].values)

\* the call stack is only ever exhausted by a call that would go on forever:
\* the variable it picks has a single value, so its second half is itself
OverflowIsDivergence ==
    exc = "RecursionError" =>
        LET vs == Head(stack).variables
        IN  Len(largest_variable(vs).values) = 1 /\ sub_query2(vs) = vs
====
